---- MODULE Spec2Model ----
(***************************************************************************)
(* PEPITA-tools: model of analyze.py (Image records, control values,       *)
(* normalisation, plate schematic) and of the arithmetic helpers of        *)
(* imageops.py (_get_bit_depth, subtract).                                 *)
(*                                                                         *)
(* Numbers.  A raw score is a positive np.int64 or the float NaN.  A       *)
(* control value is a Python float; being a median of integers it is an    *)
(* integer or an integer plus one half, so it is kept as twice its value   *)
(* (field n of a "num" record of the control table is 2 * median).         *)
(***************************************************************************)
EXTENDS Integers, Sequences, FiniteSets, TLC

VARIABLES
    imagefiles,      \* quantify's imagefiles: one file record per well
    schematic,       \* quantify's schematic: one group label per well
    pattern,         \* the set of group labels group_regex matches
    cap,             \* quantify's cap
    images,          \* the list of Image records built so far
    control_values,  \* ctrl_vals: plate -> control median (twice its value)
    pc,              \* position in quantify: "init", "ctrl", "norm", "done"
    idx,             \* position in the list comprehension being evaluated
    outcome,         \* "running", "returned" or the exception that ended the run
                     \* (of a record used on its own: the exception of the last call)
    diag,            \* indexes of the images normalize printed 'ERROR: Plate' for
    calls,           \* a record used on its own: how often each method was called
    platefile,       \* get_schematic: the rows of cells csv.reader yields for the plate file
    target_count,    \* get_schematic: the number of image files
    plate_ignore,    \* get_schematic: labels to ignore
    sch_result,      \* get_schematic: what the call returned or raised
    img_max,         \* _get_bit_depth: the image's pixels, each as <<hi, lo>> = hi * 65536 + lo
    depth_result,    \* _get_bit_depth: what the call returned or raised
    minuend_image,   \* subtract: first image (pixels of one bit depth)
    subtrahend_image,\* subtract: second image
    sub_result       \* subtract: what the call returned

vars == <<imagefiles, schematic, pattern, cap, images, control_values, pc, idx,
          outcome, diag, calls, platefile, target_count, plate_ignore, sch_result,
          img_max, depth_result, minuend_image, subtrahend_image, sub_result>>

runVars == <<imagefiles, schematic, pattern, cap, images, control_values, pc, idx,
             outcome, diag, calls>>
schVars == <<platefile, target_count, plate_ignore, sch_result>>
bitVars == <<img_max, depth_result>>
subVars == <<minuend_image, subtrahend_image, sub_result>>

(***************************************************************************)
(* Bounds of the model.                                                    *)
(***************************************************************************)
MaxWells == 2        \* wells of a run of quantify
MaxNormWells == 3    \* wells of a normalisation batch
MaxRows == 3         \* rows of a plate file
MaxCols == 2         \* cells of a row of a plate file
MaxPixels == 2       \* pixels of an image given to _get_bit_depth
MaxSubPixels == 3    \* pixels of the images given to subtract
MaxCalls == 4        \* method calls made on a record used on its own

(***************************************************************************)
(* Values: None, NaN, inf, or a number.                                    *)
(***************************************************************************)
None == [k |-> "None", n |-> 0]
NaN == [k |-> "nan", n |-> 0]
Inf == [k |-> "inf", n |-> 0]
Num(x) == [k |-> "num", n |-> x]
IsNum(v) == v.k = "num"
IsMissing(v) == v.k = "nan"

plate_control == {"B"}
Groups == {"B", "T"}
Plates == {1, 2}

(***************************************************************************)
(* A file name and what is on disk behind it.  xy: the name carries the    *)
(* '<plate>_XYnn_' pattern; readable: imageops.read succeeds on it;        *)
(* subtr: the subtraction file exists; total: what imageops.score finds in *)
(* the masked fluorescence image.                                          *)
(***************************************************************************)
NoXY == [xy |-> FALSE, plate |-> 0, readable |-> TRUE, subtr |-> FALSE, total |-> 0]
FileStates == {<<FALSE, FALSE>>, <<TRUE, FALSE>>, <<TRUE, TRUE>>}
RunTotals == {0, 100}
RunFiles ==
    {NoXY} \cup
    {[xy |-> TRUE, plate |-> p, readable |-> fs[1], subtr |-> fs[2], total |-> t] :
        p \in Plates, fs \in FileStates, t \in RunTotals}

(***************************************************************************)
(* Image.__init__                                                          *)
(***************************************************************************)
HasXYAnyName(file) == TRUE

\* re.search(r'([a-zA-Z0-9]+)_XY([0-9][0-9])_', filename)
HasXY(file) == file.xy

NewImage(file, group) ==
    [file |-> file, plate |-> file.plate, group |-> group,
     bf_img |-> "None", fl_img |-> "None", subtr_img |-> "None", mask |-> "None",
     normalized_value |-> None, value |-> None,
     n_bf |-> 0, n_fl |-> 0, n_subtr |-> 0, n_subtr_absent |-> 0, n_mask |-> 0,
     n_value |-> 0]

\* Image.get_fl_img: [img, exc]
get_fl_img(img) ==
    IF img.fl_img # "None" THEN [img |-> img, exc |-> "none"]
    ELSE IF ~img.file.readable THEN [img |-> img, exc |-> "IOError"]
    ELSE [img |-> [img EXCEPT !.fl_img = "img", !.n_fl = @ + 1], exc |-> "none"]

\* Image.get_bf_img
get_bf_img(img) ==
    IF img.bf_img # "None" THEN img
    ELSE [img EXCEPT !.bf_img = "img", !.n_bf = @ + 1]

\* Image.get_subtr_img
get_subtr_img(img) ==
    IF img.subtr_img # "None" THEN img
    ELSE IF img.file.subtr
         THEN [img EXCEPT !.subtr_img = "img", !.n_subtr = @ + 1]
         ELSE [img EXCEPT !.subtr_img = "empty", !.n_subtr_absent = @ + 1]

\* Image.get_mask: [img, exc]; the arguments of get_fish_mask are evaluated in
\* order, so a failed read of the fluorescence image leaves the brightfield
\* image cached
get_mask(img) ==
    IF img.mask # "None" THEN [img |-> img, exc |-> "none"]
    ELSE LET a == get_bf_img(img)
             f == get_fl_img(a)
         IN  IF f.exc # "none" THEN f
             ELSE LET c == get_subtr_img(f.img)
                  IN  [img |-> [c EXCEPT !.mask = "mask", !.n_mask = @ + 1],
                       exc |-> "none"]

RawOfKeepsZero(total) == Num(total)

\* imageops.score's total turned into the raw value
RawOf(total) == IF total > 0 THEN Num(total) ELSE NaN

get_raw_valueUnlessMissing(img) ==
    IF IsNum(img.value) THEN [img |-> img, exc |-> "none"]
    ELSE LET f == get_fl_img(img)
         IN  IF f.exc # "none" THEN f
             ELSE LET m == get_mask(f.img)
                  IN  IF m.exc # "none" THEN m
                      ELSE [img |-> [m.img EXCEPT !.value = RawOf(m.img.file.total),
                                                  !.n_value = @ + 1],
                            exc |-> "none"]

\* Image.get_raw_value: [img, exc]
get_raw_value(img) ==
    IF img.value # None THEN [img |-> img, exc |-> "none"]
    ELSE LET f == get_fl_img(img)
         IN  IF f.exc # "none" THEN f
             ELSE LET m == get_mask(f.img)
                  IN  IF m.exc # "none" THEN m
                      ELSE [img |-> [m.img EXCEPT !.value = RawOf(m.img.file.total),
                                                  !.n_value = @ + 1],
                            exc |-> "none"]

(***************************************************************************)
(* np.nanmedian of a list of values, as twice the median; NaN when every   *)
(* entry is NaN.                                                           *)
(***************************************************************************)
RECURSIVE Insert(_, _)
Insert(x, s) ==
    IF s = <<>> THEN <<x>>
    ELSE IF x <= Head(s) THEN <<x>> \o s
    ELSE <<Head(s)>> \o Insert(x, Tail(s))

RECURSIVE SortNums(_)
SortNums(vals) ==
    IF vals = <<>> THEN <<>>
    ELSE IF IsNum(Head(vals)) THEN Insert(Head(vals).n, SortNums(Tail(vals)))
    ELSE SortNums(Tail(vals))

nanmedian(vals) ==
    LET s == SortNums(vals)
        L == Len(s)
    IN  IF L = 0 THEN NaN
        ELSE IF L % 2 = 1 THEN Num(2 * s[(L + 1) \div 2])
        ELSE Num(s[L \div 2] + s[L \div 2 + 1])

(***************************************************************************)
(* Image.normalize                                                         *)
(***************************************************************************)
FloorDivBeforeScaling(raw, control, z) ==
    IF IsMissing(raw)
    THEN IF IsNum(control) /\ control.n = 0 THEN [exc |-> "ZeroDivisionError", val |-> NaN]
         ELSE [exc |-> "none", val |-> NaN]
    ELSE IF ~IsNum(control) THEN [exc |-> "none", val |-> NaN]
    ELSE IF control.n = 0 THEN [exc |-> "none", val |-> z]
    ELSE [exc |-> "none", val |-> Num(((raw.n * 2) \div control.n) * 100)]

\* raw * 100 // control: raw is np.int64 (numpy floor division, which does not
\* raise on a zero divisor: the build gives z, inf or nan) or the Python float
\* nan (Python floor division, which raises on a zero divisor).
FloorDiv(raw, control, z) ==
    IF IsMissing(raw)
    THEN IF IsNum(control) /\ control.n = 0 THEN [exc |-> "ZeroDivisionError", val |-> NaN]
         ELSE [exc |-> "none", val |-> NaN]
    ELSE IF ~IsNum(control) THEN [exc |-> "none", val |-> NaN]
    ELSE IF control.n = 0 THEN [exc |-> "none", val |-> z]
    ELSE [exc |-> "none", val |-> Num((raw.n * 100 * 2) \div control.n)]

ApplyCapInclusive(val, c) ==
    IF c > 0
    THEN IF IsNum(val) /\ val.n <= c THEN val ELSE NaN
    ELSE val

\* val if val < cap else np.nan, when cap > 0
ApplyCap(val, c) ==
    IF c > 0
    THEN IF IsNum(val) /\ val.n < c THEN val ELSE NaN
    ELSE val

\* [img, exc, printed]
normalize(img, cvs, c, z) ==
    LET r == get_raw_value(img)
    IN  IF r.exc # "none" THEN [img |-> r.img, exc |-> r.exc, printed |-> FALSE]
        ELSE IF r.img.plate \notin DOMAIN cvs
        THEN [img |-> r.img, exc |-> "KeyError", printed |-> FALSE]
        ELSE LET d == FloorDiv(r.img.value, cvs[r.img.plate], z)
             IN  IF d.exc = "ZeroDivisionError"
                 THEN [img |-> [r.img EXCEPT !.normalized_value = NaN],
                       exc |-> "none", printed |-> TRUE]
                 ELSE [img |-> [r.img EXCEPT !.normalized_value = ApplyCap(d.val, c)],
                       exc |-> "none", printed |-> FALSE]

(***************************************************************************)
(* quantify and _calculate_control_values                                  *)
(***************************************************************************)
\* the filter of quantify's list comprehension
Selected(group) == group \in plate_control \/ group \in pattern

IsCtrl(img) == img.group \in plate_control

\* plates of control images that have no control value yet
PendingPlates == {images[j].plate : j \in {j \in 1..Len(images) : IsCtrl(images[j])}}
                    \ DOMAIN control_values

ScoreControlsDeferred(imgs, plate, j) == [imgs |-> imgs, exc |-> "none"]

\* [img.get_raw_value() for img in ctrl_imgs if img.plate == plate], from image j on:
\* the images as they are left, and the exception that ended the loop
RECURSIVE ScoreControls(_, _, _)
ScoreControls(imgs, plate, j) ==
    IF j > Len(imgs) THEN [imgs |-> imgs, exc |-> "none"]
    ELSE IF IsCtrl(imgs[j]) /\ imgs[j].plate = plate
    THEN LET r == get_raw_value(imgs[j])
         IN  IF r.exc # "none" THEN [imgs |-> imgs, exc |-> r.exc]
             ELSE ScoreControls([imgs EXCEPT ![j] = r.img], plate, j + 1)
    ELSE ScoreControls(imgs, plate, j + 1)

RECURSIVE ValuesOf(_, _, _)
ValuesOf(imgs, plate, j) ==
    IF j > Len(imgs) THEN <<>>
    ELSE IF IsCtrl(imgs[j]) /\ imgs[j].plate = plate
    THEN <<imgs[j].value>> \o ValuesOf(imgs, plate, j + 1)
    ELSE ValuesOf(imgs, plate, j + 1)

Min(S) == CHOOSE x \in S : \A y \in S : x <= y

\* the methods of Image that compute and cache
Getters == {"get_bf_img", "get_fl_img", "get_subtr_img", "get_mask", "get_raw_value",
            "normalize"}
NoCalls == [g \in Getters |-> 0]

Raise(e) ==
    /\ outcome' = e
    /\ pc' = "done"

\* quantify, line 201: one element of the list comprehension
ConstructImage ==
    /\ pc = "init"
    /\ idx <= Len(imagefiles)
    /\ IF Selected(schematic[idx])
       THEN IF HasXY(imagefiles[idx])
            THEN /\ images' = Append(images, NewImage(imagefiles[idx], schematic[idx]))
                 /\ idx' = idx + 1
                 /\ UNCHANGED <<pc, outcome>>
            ELSE /\ Raise("UserError: missing xy information")
                 /\ UNCHANGED <<images, idx>>
       ELSE /\ idx' = idx + 1
            /\ UNCHANGED <<images, pc, outcome>>
    /\ UNCHANGED <<imagefiles, schematic, pattern, cap, control_values, diag>>
    /\ UNCHANGED <<calls, schVars, bitVars, subVars>>

\* quantify, line 203: the list of images is complete, _calculate_control_values is called
CallCalculate ==
    /\ pc = "init"
    /\ idx > Len(imagefiles)
    /\ pc' = "ctrl"
    /\ UNCHANGED <<imagefiles, schematic, pattern, cap, images, control_values, idx,
                   outcome, diag>>
    /\ UNCHANGED <<calls, schVars, bitVars, subVars>>

\* _calculate_control_values, lines 210-212: one plate of np.unique, in ascending order
CalcControlPlate ==
    /\ pc = "ctrl"
    /\ PendingPlates # {}
    /\ LET plate == Min(PendingPlates)
           r == ScoreControls(images, plate, 1)
       IN  /\ images' = r.imgs
           /\ IF r.exc # "none"
              THEN /\ Raise(r.exc)
                   /\ UNCHANGED control_values
              ELSE /\ control_values' =
                        [p \in DOMAIN control_values \cup {plate} |->
                            IF p = plate THEN nanmedian(ValuesOf(r.imgs, plate, 1))
                            ELSE control_values[p]]
                   /\ UNCHANGED <<pc, outcome>>
    /\ UNCHANGED <<imagefiles, schematic, pattern, cap, idx, diag>>
    /\ UNCHANGED <<calls, schVars, bitVars, subVars>>

\* _calculate_control_values, lines 214-218
CalcControlReturn ==
    /\ pc = "ctrl"
    /\ PendingPlates = {}
    /\ IF DOMAIN control_values = {}
       THEN /\ Raise("UserError: no control wells")
            /\ UNCHANGED idx
       ELSE /\ pc' = "norm"
            /\ idx' = 1
            /\ UNCHANGED outcome
    /\ UNCHANGED <<imagefiles, schematic, pattern, cap, images, control_values, diag>>
    /\ UNCHANGED <<calls, schVars, bitVars, subVars>>

\* quantify, line 204: one element of the list comprehension
NormalizeImage ==
    /\ pc = "norm"
    /\ idx <= Len(images)
    /\ \E z \in {Inf, NaN} :
          LET r == normalize(images[idx], control_values, cap, z)
          IN  /\ images' = [images EXCEPT ![idx] = r.img]
              /\ diag' = IF r.printed THEN diag \cup {idx} ELSE diag
              /\ IF r.exc # "none"
                 THEN /\ Raise(r.exc)
                      /\ UNCHANGED idx
                 ELSE /\ idx' = idx + 1
                      /\ UNCHANGED <<pc, outcome>>
    /\ UNCHANGED <<imagefiles, schematic, pattern, cap, control_values>>
    /\ UNCHANGED <<calls, schVars, bitVars, subVars>>

\* quantify, line 204: the list is returned
ReturnImages ==
    /\ pc = "norm"
    /\ idx > Len(images)
    /\ pc' = "done"
    /\ outcome' = "returned"
    /\ UNCHANGED <<imagefiles, schematic, pattern, cap, images, control_values, idx, diag>>
    /\ UNCHANGED <<calls, schVars, bitVars, subVars>>

(***************************************************************************)
(* Runs of quantify.                                                       *)
(***************************************************************************)
IdleOthers ==
    /\ platefile = <<>> /\ target_count = 0 /\ plate_ignore = {} /\ sch_result = [status |-> "idle", labels |-> <<>>]
    /\ img_max = <<>> /\ depth_result = [status |-> "idle", itype |-> "", max |-> <<0, 0>>]
    /\ minuend_image = <<>> /\ subtrahend_image = <<>> /\ sub_result = [status |-> "idle", img |-> <<>>]

RunPatterns == {Groups, {"T"}, {}}

Init ==
    /\ \E n \in 1..MaxWells :
          /\ imagefiles \in [1..n -> RunFiles]
          /\ schematic \in [1..n -> Groups]
    /\ pattern \in RunPatterns
    /\ cap = -1
    /\ images = <<>>
    /\ control_values = <<>>
    /\ pc = "init"
    /\ idx = 1
    /\ outcome = "running"
    /\ diag = {}
    /\ calls = NoCalls
    /\ IdleOthers

Next ==
    \/ ConstructImage
    \/ CallCalculate
    \/ CalcControlPlate
    \/ CalcControlReturn
    \/ NormalizeImage
    \/ ReturnImages

Spec == Init /\ [][Next]_vars

(***************************************************************************)
(* Normalisation batches: the wells of one plate, all named and readable,  *)
(* with the control table either computed by _calculate_control_values or  *)
(* handed to normalize by its caller.                                      *)
(***************************************************************************)
NormTotals == {0, 75, 100, 200, 300}
NormCaps == {-1, 0, 150, 200, 201}
NormFile(t) == [xy |-> TRUE, plate |-> 1, readable |-> TRUE, subtr |-> FALSE, total |-> t]

InitNorm ==
    /\ \E n \in 1..MaxNormWells :
          /\ imagefiles \in [1..n -> {NormFile(t) : t \in NormTotals}]
          /\ schematic \in [1..n -> Groups]
    /\ pattern = Groups
    /\ cap \in NormCaps
    /\ images = [j \in 1..Len(imagefiles) |-> NewImage(imagefiles[j], schematic[j])]
    /\ \/ /\ pc = "ctrl"
          /\ control_values = <<>>
       \/ /\ pc = "norm"
          /\ control_values = [p \in {1} |-> Num(0)]
    /\ idx = 1
    /\ outcome = "running"
    /\ diag = {}
    /\ calls = NoCalls
    /\ IdleOthers

NextNorm ==
    \/ CalcControlPlate
    \/ CalcControlReturn
    \/ NormalizeImage
    \/ ReturnImages

SpecNorm == InitNorm /\ [][NextNorm]_vars

(***************************************************************************)
(* Claims about normalisation (SpecNorm)                                   *)
(***************************************************************************)
Normalized(j) == images[j].normalized_value # None

\* the scorer's totals of the control-group wells of a plate that are positive
CtrlWells(plate) ==
    {j \in 1..Len(images) : /\ images[j].group \in plate_control
                            /\ images[j].plate = plate
                            /\ images[j].file.total > 0}

\* the value of rank k (1 = smallest) among the control scores of a plate
Ranked(plate, k) ==
    CHOOSE x \in {images[j].file.total : j \in CtrlWells(plate)} :
        /\ Cardinality({j \in CtrlWells(plate) : images[j].file.total <= x}) >= k
        /\ Cardinality({j \in CtrlWells(plate) : images[j].file.total < x}) < k

\* twice the median of the control scores of a plate
TwiceMedian(plate) ==
    LET L == Cardinality(CtrlWells(plate))
    IN  Ranked(plate, (L + 1) \div 2) + Ranked(plate, L \div 2 + 1)

\* the record has a defined raw score and its plate a non-zero control median
DefinedCase(j) ==
    /\ Normalized(j)
    /\ images[j].file.total > 0
    /\ images[j].plate \in DOMAIN control_values
    /\ IsNum(control_values[images[j].plate])
    /\ control_values[images[j].plate].n # 0

ScenarioValue(total) ==
    CASE total = 100 -> 66
      [] total = 200 -> 133
      [] total = 75 -> 50
      [] total = 300 -> 200

\* the wells of end-to-end scenario 1: controls 100 and 200, the others 75 or 300,
\* normalized against the control table quantify computes
Scenario1 ==
    /\ cap = -1
    /\ control_values # [p \in {1} |-> Num(0)]
    /\ {images[j].file.total : j \in {j \in 1..Len(images) : images[j].group = "B"}}
          = {100, 200}
    /\ Cardinality({j \in 1..Len(images) : images[j].group = "B"}) = 2
    /\ \A j \in 1..Len(images) : images[j].group = "T" => images[j].file.total \in {75, 300}

\* C1: with cap <= 0, a record with a defined raw score r and a non-zero control
\* median m gets exactly floor(r * 100 / m), m being the median of the raw scores
\* of the control wells of its plate; scenario 1 gives B -> 66, 133 and T -> 50, 200.
C1_NormalizeStoresFloor ==
    /\ \A j \in 1..Len(images) :
          (DefinedCase(j) /\ cap <= 0) =>
             LET m2 == control_values[images[j].plate].n
                 r == images[j].file.total
                 q == images[j].normalized_value
             IN  /\ m2 = TwiceMedian(images[j].plate)
                 /\ IsNum(q)
                 /\ q.n * m2 <= r * 200
                 /\ r * 200 < (q.n + 1) * m2
    /\ (Scenario1 /\ pc = "done") =>
          \A j \in 1..Len(images) :
             images[j].normalized_value = Num(ScenarioValue(images[j].file.total))

C1_Witness ==
    /\ pc = "done"
    /\ Scenario1
    /\ Len(images) = 3
    /\ images[3].group = "T"
    /\ images[3].file.total = 300
    /\ images[3].normalized_value = Num(200)
    /\ \E j \in 1..2 : images[j].normalized_value = Num(66)
    /\ \E j \in 1..2 : images[j].normalized_value = Num(133)

\* floor(r * 100 / m) of a record in the defined case
FloorValue(j) == (images[j].file.total * 200) \div control_values[images[j].plate].n

C3_ZeroControlIsMissing ==
    \A j \in 1..Len(images) :
        (/\ Normalized(j)
         /\ images[j].plate \in DOMAIN control_values
         /\ control_values[images[j].plate] = Num(0)) =>
            /\ outcome \in {"running", "returned"}
            /\ IsMissing(images[j].normalized_value)
            /\ j \in diag

\* C5: a record whose scorer total is 0 or negative has a missing raw score, and its
\* normalized value is missing for every cap and every control value of its plate.
C5_MissingPropagates ==
    \A j \in 1..Len(images) :
        (Normalized(j) /\ images[j].file.total <= 0) =>
            /\ IsMissing(images[j].value)
            /\ IsMissing(images[j].normalized_value)

C5_Witness ==
    /\ pc = "done"
    /\ cap > 0
    /\ \E j \in 1..Len(images) :
          /\ images[j].file.total <= 0
          /\ images[j].plate \in DOMAIN control_values
          /\ control_values[images[j].plate] = Num(0)
          /\ IsMissing(images[j].normalized_value)
          /\ j \in diag

(***************************************************************************)
(* Claims about runs of quantify (Spec)                                    *)
(***************************************************************************)
\* image files read so far by the run: brightfield, fluorescence and subtraction
\* images, and the mask computations that read the mask file
ImageReads(j) == images[j].n_bf + images[j].n_fl + images[j].n_subtr + images[j].n_mask

NoImageRead == \A j \in 1..Len(images) : ImageReads(j) = 0

\* the wells quantify's filter selects
SelectedWells == {j \in 1..Len(imagefiles) : Selected(schematic[j])}

\* the plate has a control-group well among the images
HasControl(plate) ==
    \E j \in 1..Len(images) : images[j].plate = plate /\ IsCtrl(images[j])

\* every selected well has been constructed: no name lacked the pattern
AllConstructed == pc # "init" /\ outcome # "UserError: missing xy information"

\* C4 (the claim as stated): a run in which some plate has a well being normalized
\* but no control-group well ends in the 'no control wells' UserError, with no other
\* exception for it and no normalized value from a plate without a control entry.
C4_NoControlIsUserError ==
    (/\ pc = "done"
     /\ AllConstructed
     /\ outcome # "IOError"
     /\ \E j \in 1..Len(images) : ~HasControl(images[j].plate)) =>
        /\ outcome = "UserError: no control wells"
        /\ \A j \in 1..Len(images) :
              ~HasControl(images[j].plate) => images[j].normalized_value = None

UserErrors == {"UserError: missing xy information", "UserError: no control wells"}

\* C6 (the claim as stated): in any run, a well whose filename lacks the pattern
\* raises the fatal input error (UserError) before any image file of any well is read.
C6_AnyBadNameRaisesFirst ==
    (/\ \E j \in 1..Len(imagefiles) : ~imagefiles[j].xy
     /\ \A j \in 1..Len(imagefiles) : imagefiles[j].readable) =>
        /\ NoImageRead
        /\ pc = "done" => outcome \in UserErrors

\* C6 (amended): a well that quantify selects (its group is a control label or
\* matches group_regex) and whose filename lacks the pattern raises the UserError
\* before any image file of any well is read.
C6_SelectedBadNameRaisesFirst ==
    (\E j \in SelectedWells : ~imagefiles[j].xy) =>
        /\ NoImageRead
        /\ pc = "done" => outcome = "UserError: missing xy information"

C6_Witness ==
    /\ pc = "done"
    /\ outcome = "UserError: missing xy information"
    /\ Len(imagefiles) = 2
    /\ imagefiles[1].xy
    /\ imagefiles[1].readable
    /\ ~imagefiles[2].xy
    /\ SelectedWells = {1, 2}
    /\ Len(images) = 1
    /\ NoImageRead

\* C7 (the claim as stated): a failure while computing one well fails only that
\* well's record; unless a filename lacks the pattern or control wells are missing,
\* the run returns and every other well has its raw and normalized value.
C7_WellFailureIsLocal ==
    (/\ pc = "done"
     /\ AllConstructed
     /\ \A j \in 1..Len(images) : HasControl(images[j].plate)
     /\ \E j \in 1..Len(images) : images[j].file.readable) =>
        /\ outcome = "returned"
        /\ \A j \in 1..Len(images) :
              images[j].file.readable =>
                 /\ images[j].value # None
                 /\ images[j].normalized_value # None

(***************************************************************************)
(* get_schematic (called with a plate file, flat=True)                     *)
(***************************************************************************)
Cells == {"", "X", "B", " T"}

\* _clean: drop unprintable characters, strip white space
_clean(well) == IF well = " T" THEN "T" ELSE well

\* plate_ignore with '' appended
Ignored(ignore) == ignore \cup {""}

\* [_clean(well) for well in row if well not in plate_ignore]
RECURSIVE CleanRow(_, _)
CleanRow(row, ignore) ==
    IF row = <<>> THEN <<>>
    ELSE IF Head(row) \in Ignored(ignore) THEN CleanRow(Tail(row), ignore)
    ELSE <<_clean(Head(row))>> \o CleanRow(Tail(row), ignore)

\* sum([len(row) for row in schematic])
RECURSIVE CountCells(_)
CountCells(rows) ==
    IF rows = <<>> THEN 0 ELSE Len(Head(rows)) + CountCells(Tail(rows))

\* [well for row in schematic for well in row]
RECURSIVE Flatten(_)
Flatten(rows) ==
    IF rows = <<>> THEN <<>> ELSE Head(rows) \o Flatten(Tail(rows))

get_schematic(rows, target, ignore) ==
    LET schem == [r \in 1..Len(rows) |-> CleanRow(rows[r], ignore)]
    IN  IF CountCells(schem) = target
        THEN [status |-> "returned", labels |-> Flatten(schem)]
        ELSE IF schem = <<>>                      \* del schematic[0] of an empty list
        THEN [status |-> "IndexError", labels |-> <<>>]
        ELSE LET rest == Tail(schem)
             IN  IF \E r \in 1..Len(rest) : rest[r] = <<>>   \* del row[0] of an empty row
                 THEN [status |-> "IndexError", labels |-> <<>>]
                 ELSE LET stripped == [r \in 1..Len(rest) |-> Tail(rest[r])]
                      IN  IF CountCells(stripped) = target
                          THEN [status |-> "returned", labels |-> Flatten(stripped)]
                          ELSE [status |-> "UserError: cell count", labels |-> <<>>]

GetSchematic ==
    /\ sch_result.status = "idle"
    /\ sch_result' = get_schematic(platefile, target_count, plate_ignore)
    /\ UNCHANGED <<platefile, target_count, plate_ignore>>
    /\ UNCHANGED <<runVars, bitVars, subVars>>

IdleRun ==
    /\ imagefiles = <<>> /\ schematic = <<>> /\ pattern = {} /\ cap = -1
    /\ images = <<>> /\ control_values = <<>> /\ pc = "idle" /\ idx = 1
    /\ outcome = "idle" /\ diag = {} /\ calls = NoCalls

RowsOfCells == UNION {[1..n -> Cells] : n \in 0..MaxCols}

InitSch ==
    /\ platefile \in UNION {[1..n -> RowsOfCells] : n \in 0..MaxRows}
    /\ target_count \in 1..2
    /\ plate_ignore \in {{}, {"X"}}
    /\ sch_result = [status |-> "idle", labels |-> <<>>]
    /\ IdleRun
    /\ img_max = <<>> /\ depth_result = [status |-> "idle", itype |-> "", max |-> <<0, 0>>]
    /\ minuend_image = <<>> /\ subtrahend_image = <<>> /\ sub_result = [status |-> "idle", img |-> <<>>]

NextSch == GetSchematic

SpecSch == InitSch /\ [][NextSch]_vars

(***************************************************************************)
(* _get_bit_depth.  A pixel value v is the pair <<v \div 65536, v % 65536>>, *)
(* so that values above 2147483647 can be written.                         *)
(***************************************************************************)
Less(a, b) == a[1] < b[1] \/ (a[1] = b[1] /\ a[2] < b[2])
LessEq(a, b) == a = b \/ Less(a, b)

\* img.max()
MaxOf(img) == CHOOSE m \in {img[i] : i \in 1..Len(img)} :
                 \A i \in 1..Len(img) : LessEq(img[i], m)

\* [(itype, np.iinfo(itype).max) for itype in [np.uint8, np.uint16, np.int32]]
types == << [itype |-> "uint8", max |-> <<0, 255>>],
            [itype |-> "uint16", max |-> <<0, 65535>>],
            [itype |-> "int32", max |-> <<32767, 65535>>] >>

digitizeLeft(x) == Cardinality({i \in 1..Len(types) : LessEq(types[i].max, x)})

\* np.digitize(x, bins, right=True) for increasing bins: bins[i-1] < x <= bins[i]
digitize(x) == Cardinality({i \in 1..Len(types) : Less(types[i].max, x)})

_get_bit_depth(img) ==
    LET i == digitize(MaxOf(img))
    IN  IF i + 1 \in 1..Len(types)
        THEN [status |-> "returned", itype |-> types[i + 1].itype, max |-> types[i + 1].max]
        ELSE [status |-> "IndexError", itype |-> "", max |-> <<0, 0>>]

GetBitDepth ==
    /\ depth_result.status = "idle"
    /\ depth_result' = _get_bit_depth(img_max)
    /\ UNCHANGED img_max
    /\ UNCHANGED <<runVars, schVars, subVars>>

DepthPixels ==
    { <<0, 0>>, <<0, 1>>, <<0, 254>>, <<0, 255>>, <<0, 256>>, <<0, 65534>>, <<0, 65535>>,
      <<1, 0>>, <<1, 1>>, <<32767, 65534>>, <<32767, 65535>>, <<32768, 0>>, <<40000, 5>> }

InitBits ==
    /\ img_max \in UNION {[1..n -> DepthPixels] : n \in 1..MaxPixels}
    /\ depth_result = [status |-> "idle", itype |-> "", max |-> <<0, 0>>]
    /\ IdleRun
    /\ platefile = <<>> /\ target_count = 0 /\ plate_ignore = {} /\ sch_result = [status |-> "idle", labels |-> <<>>]
    /\ minuend_image = <<>> /\ subtrahend_image = <<>> /\ sub_result = [status |-> "idle", img |-> <<>>]

NextBits == GetBitDepth

SpecBits == InitBits /\ [][NextBits]_vars

(***************************************************************************)
(* Claims about get_schematic (SpecSch)                                    *)
(***************************************************************************)
\* a row without any label: a blank line, or only empty cells
Blank(row) == \A c \in 1..Len(row) : row[c] = ""

\* the file has a header row with a label in it, and every row below it that is not
\* blank starts with a header cell that is a label (not empty, not ignored)
CarriesHeaders ==
    /\ Len(platefile) >= 1
    /\ ~Blank(platefile[1])
    /\ \A r \in 2..Len(platefile) :
          Blank(platefile[r]) \/ Head(platefile[r]) \notin Ignored(plate_ignore)

\* the same schematic without its header row and header column
Unheadered ==
    [r \in 1..Len(platefile) - 1 |->
        IF platefile[r + 1] = <<>> THEN <<>> ELSE Tail(platefile[r + 1])]

\* the labels of the non-ignored cells of the schematic without headers, in well order
DataLabels ==
    Flatten([r \in 1..Len(Unheadered) |-> CleanRow(Unheadered[r], plate_ignore)])

\* the non-ignored cells of the file as given, headers included
AllLabels ==
    Flatten([r \in 1..Len(platefile) |-> CleanRow(platefile[r], plate_ignore)])

\* C8 (the claim as stated): on a plate file with a header row and a header column
\* whose non-ignored data cells number target_count, get_schematic returns, after one
\* stripping pass, exactly the labels of the schematic without headers, in well order.
C8_HeaderRoundTrip ==
    (CarriesHeaders /\ sch_result.status # "idle" /\ Len(DataLabels) = target_count) =>
        sch_result = [status |-> "returned", labels |-> DataLabels]

\* The round trip does hold on the files in which no row below the header row is blank.
C8_RoundTripWithoutBlankRows ==
    (/\ CarriesHeaders
     /\ \A r \in 2..Len(platefile) : ~Blank(platefile[r])
     /\ sch_result.status # "idle") =>
        /\ Len(DataLabels) = target_count =>
              sch_result = [status |-> "returned", labels |-> DataLabels]
        /\ (Len(DataLabels) # target_count /\ Len(AllLabels) # target_count) =>
              sch_result.status = "UserError: cell count"

(***************************************************************************)
(* Claims about _get_bit_depth (SpecBits)                                  *)
(***************************************************************************)
Boundaries == { <<0, 255>>, <<0, 65535>>, <<32767, 65535>> }

TypeOfMax(m) ==
    CASE m = <<0, 255>> -> "uint8"
      [] m = <<0, 65535>> -> "uint16"
      [] m = <<32767, 65535>> -> "int32"

\* C9: for an observed maximum v with 0 <= v <= 2147483647, _get_bit_depth returns
\* the representation whose maximum is the smallest boundary >= v (255 -> unsigned-8,
\* 256 -> unsigned-16, 65536 -> signed-32); a maximum above every boundary is not
\* mapped to one of the three.
C9_MinimalBoundary ==
    depth_result.status # "idle" =>
        LET v == MaxOf(img_max)
        IN  IF LessEq(v, <<32767, 65535>>)
            THEN /\ depth_result.status = "returned"
                 /\ depth_result.max \in Boundaries
                 /\ LessEq(v, depth_result.max)
                 /\ \A b \in Boundaries : LessEq(v, b) => LessEq(depth_result.max, b)
                 /\ depth_result.itype = TypeOfMax(depth_result.max)
                 /\ v = <<0, 255>> => depth_result.itype = "uint8"
                 /\ v = <<0, 256>> => depth_result.itype = "uint16"
                 /\ v = <<1, 0>> => depth_result.itype = "int32"
            ELSE depth_result.status = "IndexError"

C9_Witness ==
    /\ depth_result.status = "returned"
    /\ MaxOf(img_max) = <<0, 255>>
    /\ Len(img_max) = 2
    /\ depth_result.itype = "uint8"
    /\ depth_result.max = <<0, 255>>

(***************************************************************************)
(* subtract (scale=True, threshold=0.005) on two uint8 images of one shape. *)
(* Medians are kept as twice their value; subtrahend * (median / median) is *)
(* computed exactly.                                                       *)
(***************************************************************************)
PixelWidth == 256       \* 2^8: the values of the pixel type np.uint8

\* _get_bit_depth(minuend_image)[1] for an image of small integers
DepthMax(img) == _get_bit_depth([i \in 1..Len(img) |-> <<0, img[i]>>]).max[2]

\* pixel > threshold_px, with threshold_px = depth max * 0.005
AboveThreshold(pixel, img) == pixel * 1000 > DepthMax(img) * 5

\* (minuend_image > threshold_px) & (subtrahend_image > threshold_px)
intersection_mask(a, b) ==
    {i \in 1..Len(a) : AboveThreshold(a[i], a) /\ AboveThreshold(b[i], a)}

\* np.median(img[mask]), as twice the median
RECURSIVE Masked(_, _, _)
Masked(img, mask, i) ==
    IF i > Len(img) THEN <<>>
    ELSE IF i \in mask THEN <<Num(img[i])>> \o Masked(img, mask, i + 1)
    ELSE Masked(img, mask, i + 1)

masked_median(img, mask) == nanmedian(Masked(img, mask, 1))

\* float -> uint8 of astype: truncation; a value out of the type's range is undefined
\* in C, and the build wraps it around or saturates it (mode)
astype(x, mode) ==
    IF x < PixelWidth THEN x
    ELSE IF mode = "wrap" THEN x % PixelWidth
    ELSE PixelWidth - 1

\* lines 197-198: the scaled subtrahend cast back to the pixel type
scaled_subtrahend(a, b, mode) ==
    LET mask == intersection_mask(a, b)
        ma == masked_median(a, mask)
        mb == masked_median(b, mask)
    IN  [i \in 1..Len(b) |->
            IF mask = {} THEN 0             \* nan cast to an integer
            ELSE astype((b[i] * ma.n) \div mb.n, mode)]

\* line 200: np.where(minuend < subtrahend, 0, minuend - subtrahend) in uint8
subtract(a, b, mode) ==
    LET sb == scaled_subtrahend(a, b, mode)
    IN  [i \in 1..Len(a) |->
            IF a[i] < sb[i] THEN 0 ELSE (a[i] - sb[i]) % PixelWidth]

Subtract ==
    /\ sub_result.status = "idle"
    /\ \E mode \in {"wrap", "saturate"} :
          sub_result' = [status |-> "returned",
                         img |-> subtract(minuend_image, subtrahend_image, mode)]
    /\ UNCHANGED <<minuend_image, subtrahend_image>>
    /\ UNCHANGED <<runVars, schVars, bitVars>>

SubPixels == {0, 10, 100, 130, 200}

InitSub ==
    /\ \E n \in 1..MaxSubPixels :
          /\ minuend_image \in [1..n -> SubPixels]
          /\ subtrahend_image \in [1..n -> SubPixels]
    /\ sub_result = [status |-> "idle", img |-> <<>>]
    /\ IdleRun
    /\ platefile = <<>> /\ target_count = 0 /\ plate_ignore = {}
    /\ sch_result = [status |-> "idle", labels |-> <<>>]
    /\ img_max = <<>> /\ depth_result = [status |-> "idle", itype |-> "", max |-> <<0, 0>>]

NextSub == Subtract

SpecSub == InitSub /\ [][NextSub]_vars

(***************************************************************************)
(* Claims about subtract (SpecSub)                                         *)
(***************************************************************************)
\* b[i] * (masked median of a / masked median of b), rounded down to an integer
ScaledB(i) ==
    LET mask == intersection_mask(minuend_image, subtrahend_image)
    IN  (subtrahend_image[i] * masked_median(minuend_image, mask).n)
            \div masked_median(subtrahend_image, mask).n

\* C10 (the claim as stated): with a non-empty intersection mask, every pixel i of
\* subtract(a, b) is max(0, a[i] - scaled_b[i]): never negative, and neither the
\* cast of the scaled image back to the pixel type nor the subtraction wraps.
C10_SubtractClamps ==
    (/\ sub_result.status = "returned"
     /\ intersection_mask(minuend_image, subtrahend_image) # {}) =>
        \A i \in 1..Len(minuend_image) :
            /\ sub_result.img[i] >= 0
            /\ sub_result.img[i] =
                  IF minuend_image[i] - ScaledB(i) > 0
                  THEN minuend_image[i] - ScaledB(i) ELSE 0

(***************************************************************************)
(* Claims about the order of scoring and normalisation (Spec)              *)
(***************************************************************************)
\* the median _calculate_control_values stores for a plate with control wells
StoredMedian(plate) ==
    IF CtrlWells(plate) = {} THEN NaN ELSE Num(TwiceMedian(plate))

\* C11: in any run of quantify, no record's normalized value is computed before the
\* raw scores of all control-group records of its plate have been computed and their
\* median stored in the control value table.
C11_ControlsBeforeNormalize ==
    \A j \in 1..Len(images) :
        Normalized(j) =>
            /\ pc \in {"norm", "done"}
            /\ images[j].plate \in DOMAIN control_values
            /\ control_values[images[j].plate] = StoredMedian(images[j].plate)
            /\ \A i \in 1..Len(images) :
                  (IsCtrl(images[i]) /\ images[i].plate = images[j].plate) =>
                      images[i].value # None

C11_Witness ==
    /\ pc = "norm"
    /\ Len(images) = 2
    /\ images[1].group = "T"
    /\ images[2].group = "B"
    /\ images[1].plate = images[2].plate
    /\ Normalized(1)
    /\ ~Normalized(2)
    /\ images[2].value = Num(100)
    /\ control_values[images[1].plate] = Num(200)

(***************************************************************************)
(* One Image record used on its own: its getters and normalize are called  *)
(* in any order, any number of times; a caller that catches the exception  *)
(* of one call goes on calling.                                            *)
(***************************************************************************)
LazyFiles == {f \in RunFiles : f.xy /\ f.plate = 1}
LazyCaps == {-1, 150}
\* the control tables handed to normalize: no entry for the plate, a median, zero, NaN
LazyTables == {<<>>, [p \in {1} |-> Num(200)], [p \in {1} |-> Num(0)],
               [p \in {1} |-> NaN]}

CallsMade ==
    calls["get_bf_img"] + calls["get_fl_img"] + calls["get_subtr_img"]
        + calls["get_mask"] + calls["get_raw_value"] + calls["normalize"]

\* one call of a method: the record it leaves, the exception it raised
Called(g, img, exc) ==
    /\ pc = "lazy"
    /\ CallsMade < MaxCalls
    /\ calls' = [calls EXCEPT ![g] = @ + 1]
    /\ images' = <<img>>
    /\ outcome' = exc
    /\ UNCHANGED <<imagefiles, schematic, pattern, cap, control_values, pc, idx>>
    /\ UNCHANGED <<schVars, bitVars, subVars>>

CallGetBfImg ==
    /\ Called("get_bf_img", get_bf_img(images[1]), "none")
    /\ UNCHANGED diag

CallGetFlImg ==
    /\ LET r == get_fl_img(images[1])
       IN  Called("get_fl_img", r.img, r.exc)
    /\ UNCHANGED diag

CallGetSubtrImg ==
    /\ Called("get_subtr_img", get_subtr_img(images[1]), "none")
    /\ UNCHANGED diag

CallGetMask ==
    /\ LET r == get_mask(images[1])
       IN  Called("get_mask", r.img, r.exc)
    /\ UNCHANGED diag

CallGetRawValue ==
    /\ LET r == get_raw_value(images[1])
       IN  Called("get_raw_value", r.img, r.exc)
    /\ UNCHANGED diag

CallNormalize ==
    \E z \in {Inf, NaN} :
        LET r == normalize(images[1], control_values, cap, z)
        IN  /\ Called("normalize", r.img, r.exc)
            /\ diag' = IF r.printed THEN diag \cup {1} ELSE diag

InitLazy ==
    /\ imagefiles \in [1..1 -> LazyFiles]
    /\ schematic \in [1..1 -> Groups]
    /\ pattern = Groups
    /\ cap \in LazyCaps
    /\ images = <<NewImage(imagefiles[1], schematic[1])>>
    /\ control_values \in LazyTables
    /\ pc = "lazy"
    /\ idx = 1
    /\ outcome = "none"
    /\ diag = {}
    /\ calls = NoCalls
    /\ IdleOthers

NextLazy ==
    \/ CallGetBfImg
    \/ CallGetFlImg
    \/ CallGetSubtrImg
    \/ CallGetMask
    \/ CallGetRawValue
    \/ CallNormalize

SpecLazy == InitLazy /\ [][NextLazy]_vars

(***************************************************************************)
(* Claims about the cached fields of a record (SpecLazy)                   *)
(***************************************************************************)
\* how often each derived field of a record was computed and stored
Computed(img) ==
    [bf_img |-> img.n_bf, fl_img |-> img.n_fl,
     subtr_img |-> img.n_subtr + img.n_subtr_absent,
     mask |-> img.n_mask, value |-> img.n_value]

\* C12: for each record and any sequence of calls to its getters and to normalize,
\* each lazily derived field (brightfield image, fluorescence image, subtraction
\* image, mask, raw score) is computed at most once, also when the computed result
\* is the absent outcome (a NaN raw score, a subtraction image that is not on disk),
\* and a well already scored is not scored again when it is normalized.
C12_ComputedAtMostOnce ==
    \A j \in 1..Len(images) :
        LET img == images[j]
            n == Computed(img)
        IN  /\ n.bf_img = (IF img.bf_img = "None" THEN 0 ELSE 1)
            /\ n.fl_img = (IF img.fl_img = "None" THEN 0 ELSE 1)
            /\ n.subtr_img = (IF img.subtr_img = "None" THEN 0 ELSE 1)
            /\ n.mask = (IF img.mask = "None" THEN 0 ELSE 1)
            /\ n.value = (IF img.value = None THEN 0 ELSE 1)

\* a control well with no subtraction image and no signal is scored, asked again for
\* its subtraction image and mask, and normalized
C12_Witness ==
    /\ pc = "lazy"
    /\ images[1].group \in plate_control
    /\ calls["get_raw_value"] = 1
    /\ calls["get_subtr_img"] = 1
    /\ calls["get_mask"] = 1
    /\ calls["normalize"] = 1
    /\ images[1].value = NaN
    /\ images[1].subtr_img = "empty"
    /\ Normalized(1)
    /\ Computed(images[1]) =
          [bf_img |-> 1, fl_img |-> 1, subtr_img |-> 1, mask |-> 1, value |-> 1]

====
